---- MODULE Spec2Model ----
(***************************************************************************)
(* Model of the mock banking services of backend/services:                 *)
(*   payments_service.py      the _PAYMENTS store and submit_payment       *)
(*   transactions_service.py  the _TRANSACTIONS log, notify_transaction,   *)
(*                            search_transactions and                      *)
(*                            get_transactions_by_recipient                *)
(*                                                                         *)
(* Strings that the code concatenates, formats, lower-cases or searches    *)
(* are sequences of one-character strings, so that these operations are    *)
(* computed and not assumed.  Amounts are integers (cents); timestamps are *)
(* integer instants.                                                       *)
(***************************************************************************)
EXTENDS Integers, Sequences, FiniteSets, TLC

VARIABLES
    _PAYMENTS,      \* payments_service._PAYMENTS: store key -> payment record
    _TRANSACTIONS,  \* transactions_service._TRANSACTIONS: the log, a sequence
    request,        \* the request a sequential client was answered last: [op, ...fields]
    resp,           \* its response: [status, detail, body]
    accepted,       \* history: the (account_id, reference) pairs so answered 201
    calls,          \* number of requests answered so far; the clock read by datetime.now
    inflight,       \* concurrent requests of the payments service, per client
    overlap         \* history: pairs of clients whose requests were in flight together

vars == <<_PAYMENTS, _TRANSACTIONS, request, resp, accepted, calls, inflight, overlap>>

----------------------------------------------------------------------------
(* Bounds of the model *)

MaxCalls == 3       \* requests answered in one behaviour
NumClients == 3     \* concurrent clients of SpecConcurrent
LongRun == 993      \* notifications answered before the behaviours of SpecLong that start long

----------------------------------------------------------------------------
(* Payments service: inputs *)

\* (account_id, reference) pairs; the last two differ in both components
Pairs == { << <<"A">>, <<"C">> >>,
           << <<"A", ":", "B">>, <<"C">> >>,
           << <<"A">>, <<"B", ":", "C">> >> }
Beneficiaries == { "BEN001", "BEN002" }
Amounts == { -1, 0, 1, 2 }
Currencies == { "USD", "EUR" }
UUIDs == { "u1", "u2" }

PaymentRequest ==
    { [account_id |-> p[1], beneficiary_id |-> b, amount |-> a, currency |-> c,
       reference |-> p[2]] :
      p \in Pairs, b \in Beneficiaries, a \in Amounts, c \in Currencies }

NoRequest == [op |-> "none"]
NoResponse == [status |-> 0, detail |-> <<>>, body |-> <<>>]

----------------------------------------------------------------------------
(* Payments service: submit_payment *)

\* zero let through
AmountInvalid_NegativeOnly(payment) == payment.amount < 0

AmountInvalid(payment) == payment.amount <= 0

duplicate_key(payment) == payment.account_id \o <<":">> \o payment.reference

IsDuplicate(key, store) == key \in DOMAIN store

PaymentRecord(payment, confirmation_id, timestamp) ==
    [confirmation_id |-> confirmation_id,
     account_id      |-> payment.account_id,
     beneficiary_id  |-> payment.beneficiary_id,
     amount          |-> payment.amount,
     currency        |-> payment.currency,
     reference       |-> payment.reference,
     status          |-> "confirmed",
     timestamp       |-> timestamp]

\* a store rebuilt from the new record alone
StoreInsert_Rebuilt(store, key, record) == [k \in {key} |-> record]

StoreInsert(store, key, record) ==
    [k \in DOMAIN store \cup {key} |-> IF k = key THEN record ELSE store[k]]

Error422 ==
    [status |-> 422, detail |-> <<"amount must be greater than zero">>, body |-> <<>>]

Error409(payment) ==
    [status |-> 409,
     detail |-> <<"Duplicate payment", payment.reference, payment.account_id>>,
     body   |-> <<>>]

Created(record) == [status |-> 201, detail |-> <<>>, body |-> <<record>>]

\* the duplicate check placed before the amount check
submit_payment_DuplicateFirst(payment, store, confirmation_id, timestamp) ==
    LET key == duplicate_key(payment) IN
    IF IsDuplicate(key, store)
    THEN [resp |-> Error409(payment), store |-> store]
    ELSE IF AmountInvalid(payment)
    THEN [resp |-> Error422, store |-> store]
    ELSE LET record == PaymentRecord(payment, confirmation_id, timestamp) IN
         [resp |-> Created(record), store |-> StoreInsert(store, key, record)]

\* the record written before the duplicate check answers
submit_payment_WriteThenCheck(payment, store, confirmation_id, timestamp) ==
    IF AmountInvalid(payment)
    THEN [resp |-> Error422, store |-> store]
    ELSE LET key == duplicate_key(payment)
             record == PaymentRecord(payment, confirmation_id, timestamp) IN
         IF IsDuplicate(key, store)
         THEN [resp |-> Error409(payment), store |-> StoreInsert(store, key, record)]
         ELSE [resp |-> Created(record), store |-> StoreInsert(store, key, record)]

\* The handler, lines 55-83: the response and the store it leaves.
submit_payment(payment, store, confirmation_id, timestamp) ==
    IF AmountInvalid(payment)
    THEN [resp |-> Error422, store |-> store]
    ELSE LET key == duplicate_key(payment) IN
         IF IsDuplicate(key, store)
         THEN [resp |-> Error409(payment), store |-> store]
         ELSE LET record == PaymentRecord(payment, confirmation_id, timestamp) IN
              [resp |-> Created(record), store |-> StoreInsert(store, key, record)]

\* datetime.now(timezone.utc): one instant per answered request
Now == calls

Pair(payment) == <<payment.account_id, payment.reference>>

SubmitPayment(payment, uuid) ==
    /\ calls < MaxCalls
    /\ LET r == submit_payment(payment, _PAYMENTS, uuid, Now) IN
        /\ _PAYMENTS' = r.store
        /\ resp' = r.resp
        /\ accepted' = IF r.resp.status = 201 THEN accepted \cup {Pair(payment)} ELSE accepted
    /\ request' = [op |-> "submit_payment", payment |-> payment]
    /\ calls' = calls + 1
    /\ UNCHANGED <<_TRANSACTIONS, inflight, overlap>>

----------------------------------------------------------------------------
(* Strings: sequences of one-character strings *)

LowerLetters == <<"a","b","c","d","e","f","g","h","i","j","k","l","m",
                  "n","o","p","q","r","s","t","u","v","w","x","y","z">>
UpperLetters == <<"A","B","C","D","E","F","G","H","I","J","K","L","M",
                  "N","O","P","Q","R","S","T","U","V","W","X","Y","Z">>
DigitChars == <<"0","1","2","3","4","5","6","7","8","9">>

\* str.lower on one character
LowerChar(ch) ==
    IF \E i \in 1..26 : UpperLetters[i] = ch
    THEN LowerLetters[CHOOSE i \in 1..26 : UpperLetters[i] = ch]
    ELSE ch

\* str.lower
lower(s) == [i \in 1..Len(s) |-> LowerChar(s[i])]

\* Python's `q in s` on strings
Contains(q, s) == \E i \in 0..(Len(s) - Len(q)) : SubSeq(s, i + 1, i + Len(q)) = q

\* str(n) for n >= 0
RECURSIVE Decimal(_)
Decimal(n) ==
    IF n < 10 THEN <<DigitChars[n + 1]>>
    ELSE Decimal(n \div 10) \o <<DigitChars[(n % 10) + 1]>>

\* the format specification 03d: zero-padded to at least three characters
Format03d(n) ==
    LET d == Decimal(n) IN
    IF Len(d) >= 3 THEN d ELSE [i \in 1..(3 - Len(d)) |-> "0"] \o d

----------------------------------------------------------------------------
(* Transactions service: data *)

\* amounts in cents; timestamps in minutes relative to 2024-01-20T00:00:00Z
Seed == <<
    [transaction_id |-> <<"T", "X", "N", "0", "0", "1">>,
     account_id     |-> "ACC001",
     recipient_id   |-> "RCP001",
     amount         |-> 450,
     currency       |-> "USD",
     description    |-> <<"c", "o", "f", "f", "e", "e", " ", "s", "h", "o", "p">>,
     category       |-> <<"f", "o", "o", "d", "_", "a", "n", "d", "_", "d", "r", "i", "n", "k">>,
     status         |-> "completed",
     timestamp      |-> -6690],
    [transaction_id |-> <<"T", "X", "N", "0", "0", "2">>,
     account_id     |-> "ACC001",
     recipient_id   |-> "RCP002",
     amount         |-> 12000,
     currency       |-> "USD",
     description    |-> <<"e", "l", "e", "c", "t", "r", "i", "c", "i", "t", "y", " ", "b", "i", "l", "l", " ", "p", "a", "y", "m", "e", "n", "t">>,
     category       |-> <<"u", "t", "i", "l", "i", "t", "i", "e", "s">>,
     status         |-> "completed",
     timestamp      |-> -7620],
    [transaction_id |-> <<"T", "X", "N", "0", "0", "3">>,
     account_id     |-> "ACC002",
     recipient_id   |-> "RCP001",
     amount         |-> 875,
     currency       |-> "USD",
     description    |-> <<"c", "o", "f", "f", "e", "e", " ", "a", "n", "d", " ", "p", "a", "s", "t", "r", "y">>,
     category       |-> <<"f", "o", "o", "d", "_", "a", "n", "d", "_", "d", "r", "i", "n", "k">>,
     status         |-> "completed",
     timestamp      |-> -6660],
    [transaction_id |-> <<"T", "X", "N", "0", "0", "4">>,
     account_id     |-> "ACC001",
     recipient_id   |-> "RCP003",
     amount         |-> 5500,
     currency       |-> "USD",
     description    |-> <<"g", "r", "o", "c", "e", "r", "y", " ", "s", "t", "o", "r", "e">>,
     category       |-> <<"g", "r", "o", "c", "e", "r", "i", "e", "s">>,
     status         |-> "completed",
     timestamp      |-> -9360],
    [transaction_id |-> <<"T", "X", "N", "0", "0", "5">>,
     account_id     |-> "ACC002",
     recipient_id   |-> "RCP004",
     amount         |-> 20000,
     currency       |-> "USD",
     description    |-> <<"r", "e", "n", "t", " ", "p", "a", "y", "m", "e", "n", "t">>,
     category       |-> <<"h", "o", "u", "s", "i", "n", "g">>,
     status         |-> "pending",
     timestamp      |-> -6600] >>

\* an optional field of a JSON body: <<>> when omitted, <<v>> when given
Omitted == <<>>
Given(v) == <<v>>

NotifyBody ==
    [account_id   : {Given("ACC001")},
     recipient_id : {Given("RCP001"), Given("RCP009")},
     amount       : {Given(1250)},
     currency     : {Omitted, Given("EUR")},
     description  : {Omitted, Given(<<"C", "O", "F", "F", "E", "E">>)},
     category     : {Omitted, Given(<<"F", "o", "o", "d">>)}]

Queries == { <<>>, <<"C", "o", "F">>, <<"F", "O", "O", "D">>, <<"o", "t", "h", "e", "r">>, <<"z", "z">> }

Recipients == { "RCP001", "RCP004", "RCP009" }

----------------------------------------------------------------------------
(* Transactions service: the handlers *)

\* the fields TransactionNotification declares without a default
RequiredFields == {"account_id", "recipient_id", "amount", "description"}

MissingRequired(body) == \E f \in RequiredFields : body[f] = Omitted

\* the model TransactionNotification built from a body, with its defaults
TransactionNotification(body) ==
    [account_id   |-> body.account_id[1],
     recipient_id |-> body.recipient_id[1],
     amount       |-> body.amount[1],
     currency     |-> IF body.currency = Omitted THEN "USD" ELSE body.currency[1],
     description  |-> body.description[1],
     category     |-> IF body.category = Omitted THEN <<"o", "t", "h", "e", "r">> ELSE body.category[1]]

\* the number cut to its last three digits
new_id_LastThreeDigits(length) == <<"T", "X", "N">> \o Format03d((length + 1) % 1000)

\* f"TXN{len(_TRANSACTIONS) + 1:03d}", for length = len(_TRANSACTIONS)
new_id(length) == <<"T", "X", "N">> \o Format03d(length + 1)

\* the new record created as completed
Transaction_Completed(notification, id, timestamp) ==
    [transaction_id |-> id,
     account_id     |-> notification.account_id,
     recipient_id   |-> notification.recipient_id,
     amount         |-> notification.amount,
     currency       |-> notification.currency,
     description    |-> notification.description,
     category       |-> notification.category,
     status         |-> "completed",
     timestamp      |-> timestamp]

Transaction(notification, id, timestamp) ==
    [transaction_id |-> id,
     account_id     |-> notification.account_id,
     recipient_id   |-> notification.recipient_id,
     amount         |-> notification.amount,
     currency       |-> notification.currency,
     description    |-> notification.description,
     category       |-> notification.category,
     status         |-> "pending",
     timestamp      |-> timestamp]

\* the new record written over the last one
LogAppend_OverLast(log, transaction) ==
    IF log = <<>> THEN <<transaction>> ELSE [log EXCEPT ![Len(log)] = transaction]

\* _TRANSACTIONS.append(transaction)
LogAppend(log, transaction) == Append(log, transaction)

MissingField == [status |-> 422, detail |-> <<"Field required">>, body |-> <<>>]

Ok(results) == [status |-> 200, detail |-> <<>>, body |-> results]

NotFound(recipient_id) ==
    [status |-> 404,
     detail |-> <<"No transactions found for recipient_id", recipient_id>>,
     body   |-> <<>>]

\* lines 100-115: the response and the log it leaves
notify_transaction(notification, log, timestamp) ==
    LET transaction == Transaction(notification, new_id(Len(log)), timestamp) IN
    [resp |-> Created(transaction), log |-> LogAppend(log, transaction)]

\* the query compared as typed
search_transactions_QueryAsTyped(query, log) ==
    IF query = <<>>
    THEN log
    ELSE SelectSeq(log, LAMBDA txn :
            Contains(query, lower(txn.description)) \/ Contains(query, lower(txn.category)))

\* lines 119-128
search_transactions(query, log) ==
    IF query = <<>>
    THEN log
    ELSE LET q == lower(query) IN
         SelectSeq(log, LAMBDA txn :
            Contains(q, lower(txn.description)) \/ Contains(q, lower(txn.category)))

\* an empty result answered as a list
get_transactions_by_recipient_EmptyList(recipient_id, log) ==
    Ok(SelectSeq(log, LAMBDA txn : txn.recipient_id = recipient_id))

\* lines 132-140
get_transactions_by_recipient(recipient_id, log) ==
    LET results == SelectSeq(log, LAMBDA txn : txn.recipient_id = recipient_id) IN
    IF results = <<>> THEN NotFound(recipient_id) ELSE Ok(results)

NotifyTransaction(body) ==
    /\ calls < MaxCalls
    /\ IF MissingRequired(body)
       THEN /\ resp' = MissingField
            /\ UNCHANGED _TRANSACTIONS
       ELSE LET r == notify_transaction(TransactionNotification(body), _TRANSACTIONS, Now) IN
            /\ resp' = r.resp
            /\ _TRANSACTIONS' = r.log
    /\ request' = [op |-> "notify_transaction", body |-> body]
    /\ calls' = calls + 1
    /\ UNCHANGED <<_PAYMENTS, accepted, inflight, overlap>>

SearchTransactions(query) ==
    /\ calls < MaxCalls
    /\ resp' = Ok(search_transactions(query, _TRANSACTIONS))
    /\ request' = [op |-> "search_transactions", query |-> query]
    /\ calls' = calls + 1
    /\ UNCHANGED <<_PAYMENTS, _TRANSACTIONS, accepted, inflight, overlap>>

GetTransactionsByRecipient(recipient_id) ==
    /\ calls < MaxCalls
    /\ resp' = get_transactions_by_recipient(recipient_id, _TRANSACTIONS)
    /\ request' = [op |-> "get_transactions_by_recipient", recipient_id |-> recipient_id]
    /\ calls' = calls + 1
    /\ UNCHANGED <<_PAYMENTS, _TRANSACTIONS, accepted, inflight, overlap>>

----------------------------------------------------------------------------

\* the clients of the payments service and a client with no request in flight
Clients == 1..NumClients
Idle == [pc |-> "idle"]

\* module load: an empty store; the log holds the seed records
Init ==
    /\ _PAYMENTS = <<>>
    /\ _TRANSACTIONS = Seed
    /\ request = NoRequest
    /\ resp = NoResponse
    /\ accepted = {}
    /\ calls = 0
    /\ inflight = [c \in Clients |-> Idle]
    /\ overlap = {}

NextPayments ==
    \E payment \in PaymentRequest, uuid \in UUIDs : SubmitPayment(payment, uuid)

\* sequential clients of the payments service
SpecPayments == Init /\ [][NextPayments]_vars

NextTransactions ==
    \/ \E body \in NotifyBody : NotifyTransaction(body)
    \/ \E query \in Queries : SearchTransactions(query)
    \/ \E recipient_id \in Recipients : GetTransactionsByRecipient(recipient_id)

\* sequential clients of the transactions service
SpecTransactions == Init /\ [][NextTransactions]_vars

\* the log after n notifications of one client: the seed records and n records
\* built as notify_transaction builds them
AfterNotifications(n) ==
    [i \in 1..(Len(Seed) + n) |->
        IF i <= Len(Seed) THEN Seed[i]
        ELSE Transaction(
                TransactionNotification(
                    [account_id |-> Given("ACC001"), recipient_id |-> Given("RCP009"),
                     amount |-> Given(1250), currency |-> Omitted,
                     description |-> Given(<<"C", "O", "F", "F", "E", "E">>), category |-> Omitted]),
                new_id(i - 1),
                i - Len(Seed) - n - 1)]

\* the service at module load, or after LongRun notifications
InitLong ==
    /\ _PAYMENTS = <<>>
    /\ _TRANSACTIONS \in { Seed, AfterNotifications(LongRun) }
    /\ request = NoRequest
    /\ resp = NoResponse
    /\ accepted = {}
    /\ calls = 0
    /\ inflight = [c \in Clients |-> Idle]
    /\ overlap = {}

NextLong ==
    \E body \in { b \in NotifyBody : b.currency = Omitted } : NotifyTransaction(body)

\* notifications only, from a short and from a long log
SpecLong == InitLong /\ [][NextLong]_vars

----------------------------------------------------------------------------
(* Claims about submit_payment, under SpecPayments *)

Submitted == request.op = "submit_payment"
SubmittedNext == request'.op = "submit_payment" /\ calls' = calls + 1

\* the record stored under the key of the request answered last
Stored == _PAYMENTS[duplicate_key(request.payment)]

\* C1: once a pair (account_id, reference) has been answered 201, every later
\* submit_payment with that pair and amount > 0 is answered 409, whatever its
\* other fields; no step removes an accepted pair or a store key.
C1_AcceptedPairBlocksForever ==
    [][ /\ accepted \subseteq accepted'
        /\ DOMAIN _PAYMENTS \subseteq DOMAIN _PAYMENTS'
        /\ (SubmittedNext /\ request'.payment.amount > 0
              /\ Pair(request'.payment) \in accepted)
           => resp'.status = 409 ]_vars

\* a resubmission answered 409 after an intervening request, all of whose other
\* fields differ from the accepted payment
C1_Witness ==
    /\ Submitted /\ resp.status = 409 /\ calls >= 3
    /\ Pair(request.payment) \in accepted
    /\ Stored.timestamp = 0
    /\ Stored.beneficiary_id # request.payment.beneficiary_id
    /\ Stored.amount # request.payment.amount
    /\ Stored.currency # request.payment.currency

\* C2: a submission with amount > 0 is answered 409 only when its pair
\* (account_id, reference) was accepted before; otherwise it is answered 201 and
\* recorded.
C2_ConflictOnlyForAcceptedPair ==
    (Submitted /\ request.payment.amount > 0) =>
        \/ resp.status = 409 /\ Pair(request.payment) \in accepted
                             /\ Pair(Stored) = Pair(request.payment)
        \/ resp.status = 201 /\ Stored = resp.body[1]

\* C4: amount <= 0 is answered 422 for any other field values, also when the
\* pair (account_id, reference) was accepted before.
C4_NonPositiveAmountIs422 ==
    (Submitted /\ request.payment.amount <= 0) => resp.status = 422

C4_Witness ==
    /\ Submitted /\ request.payment.amount <= 0
    /\ Pair(request.payment) \in accepted
    /\ resp.status = 422

\* C5: a request answered 422 or 409 leaves the store exactly as it was.
C5_FailedRequestLeavesStore ==
    [][ (SubmittedNext /\ resp'.status \in {422, 409}) => _PAYMENTS' = _PAYMENTS ]_vars

\* a duplicate answered 409 while the stored record keeps the first submission
C5_Witness ==
    /\ Submitted /\ resp.status = 409
    /\ Stored.timestamp < calls - 1
    /\ Stored.confirmation_id = "u1"
    /\ Stored.beneficiary_id # request.payment.beneficiary_id

\* C12: the store holds exactly one record per 201 response: it is empty at
\* module load, every 201 response adds one record and no other response changes
\* its size; every stored record has status "confirmed", amount > 0, and the
\* account_id and reference that, joined by ":", are the key it is stored under.
C12_OneValidRecordPerCreated ==
    /\ [](\A k \in DOMAIN _PAYMENTS :
            /\ _PAYMENTS[k].status = "confirmed"
            /\ _PAYMENTS[k].amount > 0
            /\ k = _PAYMENTS[k].account_id \o <<":">> \o _PAYMENTS[k].reference)
    /\ [](calls = 0 => DOMAIN _PAYMENTS = {})
    /\ [][ SubmittedNext =>
             Cardinality(DOMAIN _PAYMENTS') =
                Cardinality(DOMAIN _PAYMENTS) + (IF resp'.status = 201 THEN 1 ELSE 0) ]_vars

\* two records after two 201 responses and one refused request
C12_Witness ==
    /\ Submitted /\ calls = 3
    /\ resp.status \in {409, 422}
    /\ Cardinality(DOMAIN _PAYMENTS) = 2
    /\ Cardinality(accepted) = 2
    /\ \A k \in DOMAIN _PAYMENTS : _PAYMENTS[k].timestamp < 2

----------------------------------------------------------------------------
(* Claims about the transactions service *)

Answered(op) == request.op = op
AnsweredNext(op) == request'.op = op /\ calls' = calls + 1

\* the value of a numeral
RECURSIVE ParseDecimal(_)
ParseDecimal(s) ==
    IF s = <<>> THEN 0
    ELSE 10 * ParseDecimal(SubSeq(s, 1, Len(s) - 1))
         + ((CHOOSE d \in 1..10 : DigitChars[d] = s[Len(s)]) - 1)

\* id is "TXN" and the numeral of n, zero-padded to three digits and no further
IsIdOf(id, n) ==
    /\ Len(id) >= 6
    /\ SubSeq(id, 1, 3) = <<"T", "X", "N">>
    /\ LET numeral == SubSeq(id, 4, Len(id)) IN
        /\ \A i \in 1..Len(numeral) : \E d \in 1..10 : DigitChars[d] = numeral[i]
        /\ ParseDecimal(numeral) = n
        /\ Len(numeral) > 3 => numeral[1] # "0"

\* C7: the transaction identifiers of the log are pairwise distinct, and the
\* record at position n (appended when the log held n - 1 records) has the
\* identifier "TXN" followed by n zero-padded to at least three digits, also
\* beyond 999 records.
C7_IdsUniqueAndSequential ==
    /\ Cardinality({ _TRANSACTIONS[i].transaction_id : i \in 1..Len(_TRANSACTIONS) })
         = Len(_TRANSACTIONS)
    /\ \A i \in 1..Len(_TRANSACTIONS) : IsIdOf(_TRANSACTIONS[i].transaction_id, i)

\* the 1001st record has just been appended
C7_Witness ==
    /\ Answered("notify_transaction") /\ resp.status = 201
    /\ Len(_TRANSACTIONS) = 1001
    /\ resp.body[1].transaction_id = <<"T", "X", "N", "1", "0", "0", "1">>
    /\ _TRANSACTIONS[1001] = resp.body[1]

\* C8: a notify_transaction with the required fields present is answered 201 and
\* appends exactly one record at the end of the log, leaving every earlier record
\* in place; the record has status "pending", the fields of the request, and
\* currency "USD" / category "other" where the request omits them.
C8_NotifyAppendsOne ==
    [][ (AnsweredNext("notify_transaction") /\ ~ MissingRequired(request'.body)) =>
          LET body == request'.body
              new == _TRANSACTIONS'[Len(_TRANSACTIONS')] IN
          /\ resp'.status = 201
          /\ Len(_TRANSACTIONS') = Len(_TRANSACTIONS) + 1
          /\ \A i \in 1..Len(_TRANSACTIONS) : _TRANSACTIONS'[i] = _TRANSACTIONS[i]
          /\ resp'.body = <<new>>
          /\ new.status = "pending"
          /\ new.account_id = body.account_id[1]
          /\ new.recipient_id = body.recipient_id[1]
          /\ new.amount = body.amount[1]
          /\ new.description = body.description[1]
          /\ new.currency = (IF body.currency = Omitted THEN "USD" ELSE body.currency[1])
          /\ new.category = (IF body.category = Omitted THEN <<"o", "t", "h", "e", "r">>
                             ELSE body.category[1]) ]_vars

\* a second notification, with currency and category omitted, has been appended
C8_Witness ==
    /\ Answered("notify_transaction") /\ resp.status = 201
    /\ request.body.currency = Omitted /\ request.body.category = Omitted
    /\ Len(_TRANSACTIONS) = Len(Seed) + 2
    /\ SubSeq(_TRANSACTIONS, 1, Len(Seed)) = Seed
    /\ _TRANSACTIONS[Len(_TRANSACTIONS)].currency = "USD"
    /\ _TRANSACTIONS[Len(_TRANSACTIONS)].category = <<"o", "t", "h", "e", "r">>

\* two characters equal up to the case of a letter
SameLetter(a, b) ==
    a = b \/ \E k \in 1..26 : {a, b} = {LowerLetters[k], UpperLetters[k]}

\* s contains q case-insensitively
ContainsIgnoringCase(q, s) ==
    \E i \in 0..(Len(s) - Len(q)) : \A j \in 1..Len(q) : SameLetter(s[i + j], q[j])

\* the records of log at the positions S, in log order
RecordsAt(log, S) ==
    [k \in 1..Cardinality(S) |->
        log[CHOOSE i \in S : Cardinality({j \in S : j <= i}) = k]]

\* C9: search_transactions answers 200 with every record of the log in insertion
\* order for the empty query, and otherwise with exactly the records whose
\* description or category contains the query case-insensitively, in log order
\* (possibly none); it leaves the log as it was.
C9_SearchReturnsMatches ==
    [][ AnsweredNext("search_transactions") =>
          LET q == request'.query
              matching == { i \in 1..Len(_TRANSACTIONS) :
                              \/ ContainsIgnoringCase(q, _TRANSACTIONS[i].description)
                              \/ ContainsIgnoringCase(q, _TRANSACTIONS[i].category) } IN
          /\ _TRANSACTIONS' = _TRANSACTIONS
          /\ resp'.status = 200
          /\ q = <<>> => resp'.body = _TRANSACTIONS
          /\ resp'.body = RecordsAt(_TRANSACTIONS, matching) ]_vars

\* a mixed-case query answered with two seed records and then a notified record
\* whose description is in upper case
C9_Witness ==
    /\ Answered("search_transactions") /\ resp.status = 200
    /\ request.query = <<"C", "o", "F">>
    /\ Len(resp.body) = 3
    /\ resp.body[1] = Seed[1] /\ resp.body[2] = Seed[3]
    /\ resp.body[3].status = "pending" /\ resp.body[3].description = <<"C", "O", "F", "F", "E", "E">>

\* C10: get_transactions_by_recipient(r) answers 404 exactly when no record of
\* the log has recipient_id r, and otherwise 200 with all and only the records
\* whose recipient_id is r; no step removes or changes a record of the log, so a
\* notified record is found by every later call.
C10_ByRecipientOrNotFound ==
    [][ /\ Len(_TRANSACTIONS') >= Len(_TRANSACTIONS)
        /\ \A i \in 1..Len(_TRANSACTIONS) : _TRANSACTIONS'[i] = _TRANSACTIONS[i]
        /\ AnsweredNext("get_transactions_by_recipient") =>
             LET r == request'.recipient_id
                 having == { i \in 1..Len(_TRANSACTIONS') :
                               _TRANSACTIONS'[i].recipient_id = r } IN
             /\ resp'.status = (IF having = {} THEN 404 ELSE 200)
             /\ Len(resp'.body) = Cardinality(having)
             /\ \A i \in having : \E k \in 1..Len(resp'.body) :
                    resp'.body[k] = _TRANSACTIONS'[i]
             /\ \A k \in 1..Len(resp'.body) : \E i \in having :
                    resp'.body[k] = _TRANSACTIONS'[i] ]_vars

\* a recipient unknown to the seed data is found after its notification
C10_Witness ==
    /\ Answered("get_transactions_by_recipient") /\ resp.status = 200
    /\ request.recipient_id = "RCP009"
    /\ \A i \in 1..Len(Seed) : Seed[i].recipient_id # "RCP009"
    /\ Len(resp.body) = 2
    /\ resp.body[2] = _TRANSACTIONS[Len(_TRANSACTIONS)]

\* C11 as stated: a record of the log has status "pending" if and only if it was
\* appended by notify_transaction, that is, lies beyond the seed records.
C11_PendingIffNotified ==
    \A i \in 1..Len(_TRANSACTIONS) :
        (_TRANSACTIONS[i].status = "pending") <=> (i > Len(Seed))

\* C11, amended: the seed records TXN001..TXN004 have status "completed", the
\* seed record TXN005 and every record appended by notify_transaction have status
\* "pending", and no step changes the status of a record of the log.
C11_PendingIffNotifiedOrTXN005 ==
    /\ [](\A i \in 1..Len(_TRANSACTIONS) :
            /\ _TRANSACTIONS[i].status \in {"pending", "completed"}
            /\ (_TRANSACTIONS[i].status = "pending") <=> (i >= Len(Seed)))
    /\ [][ \A i \in 1..Len(_TRANSACTIONS) :
             /\ i <= Len(_TRANSACTIONS')
             /\ _TRANSACTIONS'[i].status = _TRANSACTIONS[i].status ]_vars

\* two notified records, pending, after the seed records with their statuses
C11_Witness ==
    /\ Answered("notify_transaction") /\ resp.status = 201
    /\ Len(_TRANSACTIONS) = Len(Seed) + 2
    /\ resp.body[1].status = "pending"
    /\ _TRANSACTIONS[Len(Seed) + 1].status = "pending"
    /\ _TRANSACTIONS[Len(Seed)].transaction_id = <<"T", "X", "N", "0", "0", "5">>
    /\ _TRANSACTIONS[Len(Seed)].status = "pending"
    /\ \A i \in 1..(Len(Seed) - 1) : _TRANSACTIONS[i].status = "completed"

----------------------------------------------------------------------------
(* Payments service: concurrent requests on the event loop.                *)
(* submit_payment is a coroutine (async def): the event loop runs it until *)
(* it awaits or returns, and only then runs another one.                   *)

\* the requests the concurrent clients send: every pair with amount 1, and one
\* request with amount 0
ConcurrentRequest ==
    { p \in PaymentRequest :
        /\ p.beneficiary_id = "BEN001" /\ p.currency = "USD" /\ p.amount \in {0, 1}
        /\ p.amount = 0 => Pair(p) = << <<"A">>, <<"C">> >> }

\* a coroutine at the first statement of the handler
Started(payment) ==
    [pc |-> "validate", payment |-> payment, sawAbsent |-> FALSE, resp |-> NoResponse]

Pending(c) == inflight[c].pc \notin {"idle", "done"}
Done(c) == inflight[c].pc = "done"

\* one of the three statement groups of lines 57-83, at local.pc
Step(local, store, confirmation_id, timestamp) ==
    CASE local.pc = "validate" ->
            IF AmountInvalid(local.payment)
            THEN [local |-> [local EXCEPT !.pc = "done", !.resp = Error422], store |-> store]
            ELSE [local |-> [local EXCEPT !.pc = "check"], store |-> store]
      [] local.pc = "check" ->
            IF IsDuplicate(duplicate_key(local.payment), store)
            THEN [local |-> [local EXCEPT !.pc = "done", !.resp = Error409(local.payment)],
                  store |-> store]
            ELSE [local |-> [local EXCEPT !.pc = "insert", !.sawAbsent = TRUE],
                  store |-> store]
      [] local.pc = "insert" ->
            LET record == PaymentRecord(local.payment, confirmation_id, timestamp) IN
            [local |-> [local EXCEPT !.pc = "done", !.resp = Created(record)],
             store |-> StoreInsert(store, duplicate_key(local.payment), record)]

\* an await between the membership test and the assignment
AwaitPoints_BeforeInsert == {"insert"}

\* the statements of submit_payment at which the coroutine yields to the event
\* loop: lines 55-83 hold no await expression
AwaitPoints == {}

RECURSIVE RunToAwait(_, _, _, _)
RunToAwait(local, store, confirmation_id, timestamp) ==
    LET r == Step(local, store, confirmation_id, timestamp) IN
    IF r.local.pc = "done" \/ r.local.pc \in AwaitPoints
    THEN r
    ELSE RunToAwait(r.local, r.store, confirmation_id, timestamp)

\* a request arrives and its coroutine is scheduled
Receive(c, payment) ==
    /\ inflight[c].pc = "idle"
    /\ inflight' = [inflight EXCEPT ![c] = Started(payment)]
    /\ overlap' = overlap \cup { {c, d} : d \in {e \in Clients : Pending(e)} }
    /\ UNCHANGED <<_PAYMENTS, _TRANSACTIONS, request, resp, accepted, calls>>

\* the event loop runs the coroutine of client c up to its next await or its return
Resume(c, uuid) ==
    /\ Pending(c)
    /\ LET r == RunToAwait(inflight[c], _PAYMENTS, uuid, Now) IN
        /\ inflight' = [inflight EXCEPT ![c] = r.local]
        /\ _PAYMENTS' = r.store
    /\ calls' = calls + 1
    /\ UNCHANGED <<_TRANSACTIONS, request, resp, accepted, overlap>>

NextConcurrent ==
    \/ \E c \in Clients, payment \in ConcurrentRequest : Receive(c, payment)
    \/ \E c \in Clients, uuid \in UUIDs : Resume(c, uuid)

\* concurrent clients of the payments service, one request each
SpecConcurrent == Init /\ [][NextConcurrent]_vars

----------------------------------------------------------------------------
(* Claims about concurrent submit_payment requests, under SpecConcurrent *)

Positive(c) == inflight[c].pc # "idle" /\ inflight[c].payment.amount > 0

SamePair(c, d) ==
    /\ c # d /\ Positive(c) /\ Positive(d)
    /\ Pair(inflight[c].payment) = Pair(inflight[d].payment)

Concurrent(c, d) == {c, d} \in overlap

\* the sets of two or more requests with the same pair and amount > 0 that were
\* in flight together, taken whole
Groups ==
    { G \in SUBSET Clients :
        /\ Cardinality(G) >= 2
        /\ \A c, d \in G : c # d => SamePair(c, d) /\ Concurrent(c, d)
        /\ \A e \in Clients \ G : ~ \A c \in G : SamePair(e, c) /\ Concurrent(e, c) }

Succeeded(G) == { c \in G : Done(c) /\ inflight[c].resp.status = 201 }

\* C6 as stated: of the requests with the same pair in flight together, exactly
\* one is answered 201 and every other one 409.
C6_ExactlyOneSucceeds ==
    \A G \in Groups :
        (\A c \in G : Done(c)) =>
            /\ Cardinality(Succeeded(G)) = 1
            /\ \A c \in G \ Succeeded(G) : inflight[c].resp.status = 409

\* C6, amended: requests with the same pair never both observe the key as absent;
\* at most one of them is answered 201, its record is the one in the store, and
\* every other one is answered 409.
C6_AtMostOneSucceeds ==
    \A c, d \in Clients :
        SamePair(c, d) =>
            /\ ~ (inflight[c].sawAbsent /\ inflight[d].sawAbsent)
            /\ Done(c) => \/ /\ inflight[c].resp.status = 201
                             /\ inflight[c].sawAbsent
                             /\ _PAYMENTS[duplicate_key(inflight[c].payment)]
                                  = inflight[c].resp.body[1]
                             /\ ~ (Done(d) /\ inflight[d].resp.status = 201)
                          \/ /\ inflight[c].resp.status = 409
                             /\ ~ inflight[c].sawAbsent

\* three requests with the same pair in flight together, all answered: one 201
C6_Witness ==
    \E G \in Groups :
        /\ G = Clients
        /\ \A c \in G : Done(c)
        /\ Cardinality(Succeeded(G)) = 1

====
